---- MODULE Spec2Model ----
(***************************************************************************)
(* Model of the image-edit endpoint of Pixora-AI (src/unnamed/part_001):   *)
(* the POST handler, its data-URL split, the call to the generative model, *)
(* the normalisation of the model's reply and extractBase64FromText.       *)
(*                                                                         *)
(* A JavaScript string is a sequence of one-character strings, so that     *)
(* startsWith, split, trim, substring and the two regular expressions are  *)
(* computed on characters.  A template literal with one interpolation is a *)
(* record [head, arg, tail]: the literal text before the hole, the         *)
(* interpolated string, the literal text after it.                         *)
(***************************************************************************)
EXTENDS Naturals, Sequences, FiniteSets

(***************************************************************************)
(* Program constants.                                                      *)
(***************************************************************************)
\* content.length > 100 in the JSON-field branch
MinFieldLen == 100
\* text.trim().length > 100 in the whole-text branch
MinTextLen == 100
\* extractedBase64.length > 100 in the handler
MinExtractedLen == 100
\* textContent.substring(0, 100)
ExcerptLen == 100
\* timeout: 60000
CallTimeoutMs == 60000

(***************************************************************************)
(* Bounds of the model.                                                    *)
(***************************************************************************)
\* longest parts list of a candidate
MaxParts == 2

(***************************************************************************)
(* Strings.                                                                *)
(***************************************************************************)
\* the class [A-Za-z0-9+/=] of both regular expressions
Base64Alphabet ==
  {"A", "B", "C", "D", "E", "F", "G", "H", "I", "J", "K", "L", "M", "N", "O",
   "P", "Q", "R", "S", "T", "U", "V", "W", "X", "Y", "Z", "a", "b", "c", "d",
   "e", "f", "g", "h", "i", "j", "k", "l", "m", "n", "o", "p", "q", "r", "s",
   "t", "u", "v", "w", "x", "y", "z", "0", "1", "2", "3", "4", "5", "6", "7",
   "8", "9", "+", "/", "="}

Digits == {"0", "1", "2", "3", "4", "5", "6", "7", "8", "9"}

\* \s of the regular expression, the white space of trim() and of JSON
Whitespace == {" ", "\t", "\n", "\r"}

DataImagePrefix == <<"d", "a", "t", "a", ":", "i", "m", "a", "g", "e", "/">>

DataImagePngPrefix ==
  <<"d", "a", "t", "a", ":", "i", "m", "a", "g", "e", "/", "p", "n", "g">>

\* the backquote character, which a TLA+ string cannot hold
Backquote == "backquote"

FenceOpen == <<Backquote, Backquote, Backquote, "j", "s", "o", "n">>

FenceClose == <<Backquote, Backquote, Backquote>>

ImagePng == <<"i", "m", "a", "g", "e", "/", "p", "n", "g">>

ImageJpeg == <<"i", "m", "a", "g", "e", "/", "j", "p", "e", "g">>

\* a value that may be undefined or null: present = FALSE, or a string
Undefined == [present |-> FALSE, val |-> <<>>]

Some(s) == [present |-> TRUE, val |-> s]

\* s.startsWith(prefix), and the same test at position i
StartsAt(s, i, prefix) ==
  /\ i >= 1
  /\ i + Len(prefix) - 1 <= Len(s)
  /\ \A k \in 1..Len(prefix) : s[i + k - 1] = prefix[k]

StartsWith(s, prefix) == StartsAt(s, 1, prefix)

\* the first position from i on that holds no white space (Len(s)+1: none)
SkipWs(s, i) ==
  IF i > Len(s) THEN i
  ELSE CHOOSE j \in i..(Len(s) + 1) :
         /\ j = Len(s) + 1 \/ s[j] \notin Whitespace
         /\ \A k \in i..(j - 1) : s[k] \in Whitespace

\* the last position down from i that holds no white space (0: none)
SkipWsBack(s, i) ==
  CHOOSE j \in 0..i :
    /\ j = 0 \/ s[j] \notin Whitespace
    /\ \A k \in (j + 1)..i : s[k] \in Whitespace

\* s.trim()
Trim(s) == SubSeq(s, SkipWs(s, 1), SkipWsBack(s, Len(s)))

\* the first position from i on that holds c (Len(s)+1: none)
IndexFrom(s, c, i) ==
  IF i > Len(s) THEN i
  ELSE CHOOSE j \in i..(Len(s) + 1) :
         /\ j = Len(s) + 1 \/ s[j] = c
         /\ \A k \in i..(j - 1) : s[k] # c

\* s.split(',').length > 1
HasComma(s) == IndexFrom(s, ",", 1) <= Len(s)

\* s.split(',')[1]: what lies between the first comma and the second
SplitSecond(s) ==
  LET c1 == IndexFrom(s, ",", 1)
      c2 == IndexFrom(s, ",", c1 + 1)
  IN IF c1 > Len(s) THEN Undefined ELSE Some(SubSeq(s, c1 + 1, c2 - 1))

\* s.split(',')[1] || null: an empty string is falsy
SplitSecondOrNull(s) ==
  LET x == SplitSecond(s)
  IN IF x.present /\ x.val # <<>> THEN x ELSE Undefined

\* /^[A-Za-z0-9+/=]+$/.test(s)
IsBase64Text(s) == s # <<>> /\ \A k \in 1..Len(s) : s[k] \in Base64Alphabet

\* s.substring(0, n)
Substring0(s, n) == SubSeq(s, 1, IF Len(s) < n THEN Len(s) ELSE n)

(***************************************************************************)
(* text.match with the fenced-json regular expression: the leftmost        *)
(* opening fence followed by white space and a brace, and from that brace  *)
(* the shortest run that ends in a brace followed by white space and a     *)
(* closing fence.  The value is the first capture group.                   *)
(***************************************************************************)
\* the closing brace, white space and closing fence, the brace at position q
ClosesAt(s, q) ==
  /\ q <= Len(s)
  /\ s[q] = "}"
  /\ StartsAt(s, SkipWs(s, q + 1), FenceClose)

\* the first closing brace from q on that ClosesAt accepts (Len(s)+1: none)
FirstClose(s, q) ==
  IF q > Len(s) THEN q
  ELSE CHOOSE j \in q..(Len(s) + 1) :
         /\ j = Len(s) + 1 \/ ClosesAt(s, j)
         /\ \A k \in q..(j - 1) : ~ClosesAt(s, k)

\* the capture of a match that starts at position p, if there is one
MatchAt(s, p) ==
  IF ~StartsAt(s, p, FenceOpen) THEN Undefined
  ELSE LET b == SkipWs(s, p + Len(FenceOpen))
       IN IF b > Len(s) \/ s[b] # "{" THEN Undefined
          ELSE LET q == FirstClose(s, b + 1)
               IN IF q > Len(s) THEN Undefined ELSE Some(SubSeq(s, b, q))

\* a variant that finds the block only when the fence opens the text
jsonMatchAnchored(text) == MatchAt(text, 1)

\* the match with the leftmost start
jsonMatch(text) ==
  LET p == CHOOSE j \in 1..(Len(text) + 1) :
             /\ j = Len(text) + 1 \/ MatchAt(text, j).present
             /\ \A k \in 1..(j - 1) : ~MatchAt(text, k).present
  IN IF p > Len(text) THEN Undefined ELSE MatchAt(text, p)

(***************************************************************************)
(* JSON.parse of the capture, for the objects the model feeds it: members  *)
(* whose values are strings without escape sequences or unsigned integers. *)
(* The value is [ok, members]; ok = FALSE is the SyntaxError the code      *)
(* catches.  A member is [key, isString, str].                             *)
(***************************************************************************)
ParseError == [ok |-> FALSE, members |-> <<>>]

\* the first position from i on that holds no digit
SkipDigits(s, i) ==
  IF i > Len(s) THEN i
  ELSE CHOOSE j \in i..(Len(s) + 1) :
         /\ j = Len(s) + 1 \/ s[j] \notin Digits
         /\ \A k \in i..(j - 1) : s[k] \in Digits

\* what follows a value that ends before position i: a comma and the next
\* member, or the closing brace and nothing but white space
RECURSIVE ParseMembers(_, _, _)
ParseAfterValue(s, i, acc) ==
  LET j == SkipWs(s, i)
  IN IF j > Len(s) THEN ParseError
     ELSE IF s[j] = "," THEN ParseMembers(s, SkipWs(s, j + 1), acc)
     ELSE IF s[j] = "}"
       THEN IF SkipWs(s, j + 1) > Len(s)
              THEN [ok |-> TRUE, members |-> acc]
              ELSE ParseError
     ELSE ParseError

\* a member "key" : value starting at position i
ParseMembers(s, i, acc) ==
  IF i > Len(s) \/ s[i] # "\"" THEN ParseError
  ELSE
    LET ke == IndexFrom(s, "\"", i + 1)
        c  == SkipWs(s, ke + 1)
        v  == SkipWs(s, c + 1)
    IN IF ke > Len(s) \/ c > Len(s) \/ s[c] # ":" \/ v > Len(s)
         THEN ParseError
       ELSE IF s[v] = "\""
         THEN LET ve == IndexFrom(s, "\"", v + 1)
              IN IF ve > Len(s) THEN ParseError
                 ELSE ParseAfterValue(s, ve + 1,
                        Append(acc, [key |-> SubSeq(s, i + 1, ke - 1),
                                     isString |-> TRUE,
                                     str |-> SubSeq(s, v + 1, ve - 1)]))
       ELSE IF s[v] \in Digits
         THEN LET ve == SkipDigits(s, v)
              IN ParseAfterValue(s, ve,
                   Append(acc, [key |-> SubSeq(s, i + 1, ke - 1),
                                isString |-> FALSE,
                                str |-> SubSeq(s, v, ve - 1)]))
       ELSE ParseError

JsonParse(s) ==
  LET b == SkipWs(s, 1)
  IN IF b > Len(s) \/ s[b] # "{" THEN ParseError
     ELSE LET m == SkipWs(s, b + 1)
          IN IF m <= Len(s) /\ s[m] = "}"
               THEN IF SkipWs(s, m + 1) > Len(s)
                      THEN [ok |-> TRUE, members |-> <<>>]
                      ELSE ParseError
               ELSE ParseMembers(s, m, <<>>)

\* json[field] && typeof json[field] === 'string': the last member of that
\* name wins, and it counts when it is a non-empty string
RECURSIVE LastMember(_, _, _)
LastMember(members, field, i) ==
  IF i < 1 THEN Undefined
  ELSE IF members[i].key = field
    THEN IF members[i].isString /\ members[i].str # <<>>
           THEN Some(members[i].str)
           ELSE Undefined
  ELSE LastMember(members, field, i - 1)

StringField(members, field) == LastMember(members, field, Len(members))

(***************************************************************************)
(* extractBase64FromText.                                                  *)
(***************************************************************************)
possibleFields ==
  << <<"t", "e", "x", "t">>,
     <<"i", "m", "a", "g", "e">>,
     <<"d", "a", "t", "a">>,
     <<"b", "a", "s", "e", "6", "4">> >>

NoReturn == [returns |-> FALSE, value |-> Undefined]

Return(v) == [returns |-> TRUE, value |-> v]

\* the body of the loop for one string field: a data-URL returns what
\* follows its comma (or null), a long base64 string returns itself, and
\* anything else lets the loop go on
FieldOutcome(content) ==
  IF StartsWith(content, DataImagePrefix)
    THEN Return(SplitSecondOrNull(content))
  ELSE IF IsBase64Text(content) /\ Len(content) > MinFieldLen
    THEN Return(Some(content))
  ELSE NoReturn

\* a variant in which the first string field decides and ends the loop
ScanFieldsFirstString(members, i) ==
  LET strings == {k \in i..Len(possibleFields) :
                    StringField(members, possibleFields[k]).present}
  IN IF strings = {} THEN NoReturn
     ELSE FieldOutcome(StringField(members,
            possibleFields[CHOOSE k \in strings : \A j \in strings : k <= j]).val)

\* for (const field of possibleFields), from the i-th field on
RECURSIVE ScanFields(_, _)
ScanFields(members, i) ==
  IF i > Len(possibleFields) THEN NoReturn
  ELSE LET f == StringField(members, possibleFields[i])
           o == FieldOutcome(f.val)
       IN IF f.present /\ o.returns THEN o ELSE ScanFields(members, i + 1)

\* the if (jsonMatch) block: a parse error is caught and ignored
ExtractFromJsonBlock(text) ==
  LET m == jsonMatch(text)
  IN IF ~m.present THEN NoReturn
     ELSE LET json == JsonParse(m.val)
          IN IF json.ok THEN ScanFields(json.members, 1) ELSE NoReturn

\* if (text.startsWith("data:image/")) return text.split(',')[1] || null
ExtractFromDataUrl(text) ==
  IF StartsWith(text, DataImagePrefix)
    THEN Return(SplitSecondOrNull(text))
    ELSE NoReturn

\* the whole text, trimmed, is base64 and long enough
ExtractFromRawText(text) ==
  LET trimmed == Trim(text)
  IN IF IsBase64Text(trimmed) /\ Len(trimmed) > MinTextLen
       THEN Return(Some(trimmed))
       ELSE NoReturn

extractBase64FromText(text) ==
  LET a == ExtractFromJsonBlock(text)
      b == ExtractFromDataUrl(text)
      c == ExtractFromRawText(text)
  IN IF a.returns THEN a.value
     ELSE IF b.returns THEN b.value
     ELSE IF c.returns THEN c.value
     ELSE Undefined

(***************************************************************************)
(* The POST handler: messages, responses and the normalisation of the      *)
(* provider's reply.                                                       *)
(***************************************************************************)
\* a template literal: head, the interpolated string, tail
Template(head, arg, tail) == [head |-> head, arg |-> arg, tail |-> tail]

\* a message without interpolation
Literal(text) == Template(text, <<>>, "")

NoMessage == Literal("")

\* the enhancedPrompt template literal
enhancedPrompt(prompt) ==
  Template("Using the attached image as inspiration, GENERATE A NEW, complete image. In this new image, apply the following visual change: ",
           prompt,
           ". The output MUST be a single, finished image, and nothing else.")

BlockedMessage(blockReason) ==
  Template("Generation failed: Model output was blocked. Reason: ",
           blockReason, "")

EmptyOutputMessage == Literal("Generation failed: Model output was empty.")

EmptyCandidateMessage ==
  Literal("Generation failed: Candidate parts array is empty. The model may have generated text instead of an image.")

\* a variant that quotes the whole text
TextInsteadOfImageWhole(textContent) ==
  Template("Model generated text instead of image: \"",
           textContent,
           "...\". Please adjust the prompt.")

TextInsteadOfImageMessage(textContent) ==
  Template("Model generated text instead of image: \"",
           Substring0(textContent, ExcerptLen),
           "...\". Please adjust the prompt.")

NoUsableOutputMessage ==
  Literal("No usable output (image or text) found in the model response. Try making the prompt simpler or shorter.")

\* content.parts where content is undefined
MissingContentMessage ==
  Literal("Cannot read properties of undefined (reading 'parts')")

\* request.json() on a body that is not JSON
BadBodyMessage == Literal("Unexpected end of JSON input")

FallbackWarning ==
  "Warning: Model returned image as text. Consider refining prompt."

\* NextResponse.json(...) of the three shapes the handler sends
MissingParameterResponse ==
  [status |-> 400, error |-> "Missing required parameters",
   details |-> NoMessage, success |-> FALSE, editedImage |-> <<>>,
   message |-> ""]

FailureResponse(details) ==
  [status |-> 500, error |-> "Failed to process image with Gemini",
   details |-> details, success |-> FALSE, editedImage |-> <<>>,
   message |-> ""]

SuccessResponse(editedImage, message) ==
  [status |-> 200, error |-> "", details |-> NoMessage, success |-> TRUE,
   editedImage |-> editedImage, message |-> message]

\* how a stretch of the try block ends: a value thrown, or a response
Throw(message) ==
  [threw |-> TRUE, isError |-> TRUE, message |-> message,
   returned |-> MissingParameterResponse]

ThrowNonError ==
  [threw |-> TRUE, isError |-> FALSE, message |-> NoMessage,
   returned |-> MissingParameterResponse]

Returns(resp) ==
  [threw |-> FALSE, isError |-> FALSE, message |-> NoMessage,
   returned |-> resp]

\* the catch block
CatchBlock(thrown) ==
  FailureResponse(IF thrown.isError THEN thrown.message
                  ELSE Literal("Failed to process image"))

\* the response the handler sends for a completion of its try block
Respond(completion) ==
  IF completion.threw THEN CatchBlock(completion) ELSE completion.returned

\* a variant that tests x !== undefined only
TruthyWhenPresent(x) == x.present

\* !x for a string that may be absent: undefined, null and "" are falsy
Truthy(x) == x.present /\ x.val # <<>>

\* a variant that takes split(',')[0]
SplitImageDataFirst(imageData) ==
  SubSeq(imageData, 1, IndexFrom(imageData, ",", 1) - 1)

\* imageData.split(',').length > 1 ? imageData.split(',')[1] : imageData
SplitImageData(imageData) ==
  IF HasComma(imageData) THEN SplitSecond(imageData).val ELSE imageData

\* imageData.startsWith('data:image/png') ? 'image/png' : 'image/jpeg'
DeclaredMimeType(imageData) ==
  IF StartsWith(imageData, DataImagePngPrefix) THEN ImagePng ELSE ImageJpeg

\* the arguments of model.generateContent
ProviderCall(imageData, prompt) ==
  [prompt |-> enhancedPrompt(prompt),
   data |-> SplitImageData(imageData),
   mimeType |-> DeclaredMimeType(imageData),
   timeout |-> CallTimeoutMs]

\* `data:${mimeType};base64,${data}`
DataUrl(mimeType, data) ==
  <<"d", "a", "t", "a", ":">> \o mimeType
    \o <<";", "b", "a", "s", "e", "6", "4", ",">> \o data

\* part.inlineData is truthy
HasInlineData(part) == part.kind = "inlineData"

\* part.text is truthy: a string that is not empty
HasText(part) == part.kind = "text" /\ part.text # <<>>

\* parts.find((part) => part.inlineData): the index of the part, 0: none
RECURSIVE imagePartFrom(_, _)
imagePartFrom(parts, i) ==
  IF i > Len(parts) THEN 0
  ELSE IF HasInlineData(parts[i]) THEN i
  ELSE imagePartFrom(parts, i + 1)

imagePart(parts) == imagePartFrom(parts, 1)

\* parts.find((part) => part.text): the index of the part, 0: none
RECURSIVE textPartFrom(_, _)
textPartFrom(parts, i) ==
  IF i > Len(parts) THEN 0
  ELSE IF HasText(parts[i]) THEN i
  ELSE textPartFrom(parts, i + 1)

textPart(parts) == textPartFrom(parts, 1)

\* step 3: the dedicated image part
ImagePartResponse(part) ==
  SuccessResponse(DataUrl(part.mimeType, part.data), "")

\* a variant that sends no warning
TextPartCompletionNoWarning(part) ==
  LET textContent == Trim(part.text)
      extractedBase64 == extractBase64FromText(textContent)
  IN IF extractedBase64.present /\ Len(extractedBase64.val) > MinExtractedLen
       THEN Returns(SuccessResponse(DataUrl(ImageJpeg, extractedBase64.val), ""))
       ELSE Throw(TextInsteadOfImageMessage(textContent))

\* a variant without the length check of the handler
TextPartCompletionNoLengthGate(part) ==
  LET textContent == Trim(part.text)
      extractedBase64 == extractBase64FromText(textContent)
  IN IF extractedBase64.present
       THEN Returns(SuccessResponse(DataUrl(ImageJpeg, extractedBase64.val),
                                    FallbackWarning))
       ELSE Throw(TextInsteadOfImageMessage(textContent))

\* step 4: the text part, trimmed and mined for base64
TextPartCompletion(part) ==
  LET textContent == Trim(part.text)
      extractedBase64 == extractBase64FromText(textContent)
  IN IF extractedBase64.present /\ Len(extractedBase64.val) > MinExtractedLen
       THEN Returns(SuccessResponse(DataUrl(ImageJpeg, extractedBase64.val),
                                    FallbackWarning))
       ELSE Throw(TextInsteadOfImageMessage(textContent))

\* a variant that looks for the text part first
PartsCompletionTextFirst(parts) ==
  LET image == imagePart(parts)
      text == textPart(parts)
  IN IF text # 0 THEN TextPartCompletion(parts[text])
     ELSE IF image # 0 THEN Returns(ImagePartResponse(parts[image]))
     ELSE Throw(NoUsableOutputMessage)

\* steps 3 to 5 on a non-empty parts list
PartsCompletion(parts) ==
  LET image == imagePart(parts)
      text == textPart(parts)
  IN IF image # 0 THEN Returns(ImagePartResponse(parts[image]))
     ELSE IF text # 0 THEN TextPartCompletion(parts[text])
     ELSE Throw(NoUsableOutputMessage)

\* a variant that does not read promptFeedback
NoCandidatesIgnoringFeedback(promptFeedback) == Throw(EmptyOutputMessage)

\* step 1: no candidates
NoCandidatesCompletion(promptFeedback) ==
  IF promptFeedback.present /\ promptFeedback.blockReason # <<>>
    THEN Throw(BlockedMessage(promptFeedback.blockReason))
    ELSE Throw(EmptyOutputMessage)

\* the handler from const response = result.response to its return or throw
NormalizeResponse(resp) ==
  IF ~resp.candidates.present \/ resp.candidates.list = <<>>
    THEN NoCandidatesCompletion(resp.promptFeedback)
  ELSE LET first == resp.candidates.list[1]
       IN IF ~first.hasContent THEN Throw(MissingContentMessage)
          ELSE IF ~first.parts.present \/ first.parts.list = <<>>
            THEN Throw(EmptyCandidateMessage)
          ELSE PartsCompletion(first.parts.list)

(***************************************************************************)
(* Inputs: the request bodies a caller may post and the replies the        *)
(* provider may give.                                                      *)
(***************************************************************************)
\* n times the character c
Rep(c, n) == [i \in 1..n |-> c]

Quoted(s) == <<"\"">> \o s \o <<"\"">>

\* "key": value
Member(key, value) == Quoted(key) \o <<":", " ">> \o value

Object1(m) == <<"{">> \o m \o <<"}">>

Object2(m1, m2) == <<"{">> \o m1 \o <<",", " ">> \o m2 \o <<"}">>

\* a fenced json block
Fenced(json) == FenceOpen \o <<"\n">> \o json \o <<"\n">> \o FenceClose

Prose ==
  <<"S", "o", "r", "r", "y", ",", " ", "n", "o", " ", "i", "m", "a", "g", "e">>

Intro == <<"H", "e", "r", "e", " ", "i", "t", " ", "i", "s", ":", " ">>

Outro == <<" ", "E", "n", "j", "o", "y", "!">>

PngPayload == <<"i", "V", "B", "O", "R", "w", "0", "K", "G", "g", "o", "=">>

JpegPayload == <<"/", "9", "j", "/", "4", "A", "A", "Q">>

WebpPayload == <<"U", "k", "l", "G", "R", "h", "4", "A">>

ImageWebp == <<"i", "m", "a", "g", "e", "/", "w", "e", "b", "p">>

FieldText == possibleFields[1]

FieldImage == possibleFields[2]

FieldData == possibleFields[3]

FieldBase64 == possibleFields[4]

FieldOther == <<"p", "a", "y", "l", "o", "a", "d">>

\* the texts a text part may hold
RawTexts ==
  { Rep("A", MinTextLen),
    Rep("A", MinTextLen + 1),
    <<" ", "\n">> \o Rep("B", MinTextLen + 50) \o <<"\n">>,
    Rep("A", MinTextLen) \o <<"!">> \o Rep("A", 20) }

ProseTexts ==
  { Prose,
    Rep("a", 60) \o <<" ">> \o Rep("b", ExcerptLen),
    <<" ", " ">> }

JsonTexts ==
  { Intro \o Fenced(Object1(Member(FieldImage,
                      Quoted(Rep("C", MinFieldLen + 1))))) \o Outro,
    Fenced(Object1(Member(FieldBase64, Quoted(Rep("C", MinFieldLen + 50))))),
    Fenced(Object2(Member(FieldText, Quoted(Prose)),
                   Member(FieldImage, Quoted(Rep("D", MinFieldLen + 1))))),
    Fenced(Object2(Member(FieldText, Quoted(Rep("E", MinFieldLen))),
                   Member(FieldImage, Quoted(Rep("F", MinFieldLen + 1))))),
    Fenced(Object2(Member(FieldImage, Quoted(Rep("G", MinFieldLen + 1))),
                   Member(FieldText, Quoted(Rep("H", MinFieldLen + 2))))),
    Fenced(Object1(Member(FieldData,
                     Quoted(DataUrl(ImagePng, Rep("I", MinExtractedLen + 1)))))),
    Fenced(Object1(Member(FieldImage,
                     Quoted(DataUrl(ImagePng, Rep("!", MinExtractedLen + 1)))))),
    Fenced(Object2(Member(FieldText, Quoted(DataImagePngPrefix)),
                   Member(FieldImage, Quoted(Rep("J", MinFieldLen + 1))))),
    Fenced(Object2(Member(FieldImage, <<"5">>),
                   Member(FieldData, Quoted(Rep("K", MinFieldLen + 1))))),
    Fenced(<<"{">> \o Member(FieldImage, Quoted(Rep("L", MinFieldLen + 1)))
             \o <<",", "}">>),
    Fenced(Object1(Member(FieldImage, Quoted(Rep("M", MinFieldLen))))),
    Fenced(Object1(Member(FieldOther, Quoted(Rep("N", MinFieldLen + 1))))),
    Fenced(Object2(Member(FieldOther, Quoted(Prose)),
                   Member(FieldText, Quoted(Rep("R", MinFieldLen + 1)))))
      \o Outro }

DataUrlTexts ==
  { DataUrl(ImagePng, Rep("O", MinExtractedLen + 1)),
    DataUrl(ImagePng, Rep("!", MinExtractedLen + 1)),
    DataUrl(ImagePng, Rep("P", MinExtractedLen)),
    DataUrl(ImagePng, Rep("Q", MinExtractedLen + 1) \o <<",">> \o Prose),
    DataImagePngPrefix }

Texts == RawTexts \cup ProseTexts \cup JsonTexts \cup DataUrlTexts

\* a later text part: base64 that the extraction would accept
DecoyText == Rep("Z", MinTextLen + 1)

InlineDataPart(mimeType, data) ==
  [kind |-> "inlineData", mimeType |-> mimeType, data |-> data, text |-> <<>>]

TextPart(text) ==
  [kind |-> "text", mimeType |-> <<>>, data |-> <<>>, text |-> text]

\* a part that is neither text nor inline data (a function call, say)
OtherPart ==
  [kind |-> "other", mimeType |-> <<>>, data |-> <<>>, text |-> <<>>]

Images == { InlineDataPart(ImagePng, PngPayload),
            InlineDataPart(ImageWebp, WebpPayload) }

DecoyImage == InlineDataPart(ImageJpeg, JpegPayload)

\* the kinds of part at each position of a parts list; "empty" is a text
\* part whose text is the empty string
PartKinds == {"inlineData", "text", "empty", "other"}

Shapes == UNION { [1..n -> PartKinds] : n \in 0..MaxParts }

\* the parts list of a shape: its first text part holds text, its first
\* image part is image, and the later ones are the decoys
BuildParts(shape, text, image) ==
  [i \in 1..Len(shape) |->
     IF shape[i] = "inlineData"
       THEN IF \E k \in 1..(i - 1) : shape[k] = "inlineData"
              THEN DecoyImage ELSE image
     ELSE IF shape[i] = "text"
       THEN IF \E k \in 1..(i - 1) : shape[k] = "text"
              THEN TextPart(DecoyText) ELSE TextPart(text)
     ELSE IF shape[i] = "empty" THEN TextPart(<<>>)
     ELSE OtherPart]

PartsLists ==
  { BuildParts(shape, text, image) :
      shape \in Shapes, text \in Texts, image \in Images }

Absent(x) == [present |-> FALSE, list |-> <<>>]

Present(x) == [present |-> TRUE, list |-> x]

Candidate(parts) == [hasContent |-> TRUE, parts |-> parts]

CandidateWithoutContent == [hasContent |-> FALSE, parts |-> Absent(<<>>)]

\* a second candidate, which the handler never reads
DecoyCandidate == Candidate(Present(<<DecoyImage>>))

BlockReasons == { <<"S", "A", "F", "E", "T", "Y">>, <<"O", "T", "H", "E", "R">> }

PromptFeedbacks ==
  { [present |-> FALSE, blockReason |-> <<>>],
    [present |-> TRUE, blockReason |-> <<>>] }
  \cup { [present |-> TRUE, blockReason |-> r] : r \in BlockReasons }

NoFeedback == [present |-> FALSE, blockReason |-> <<>>]

FirstCandidates ==
  { CandidateWithoutContent, Candidate(Absent(<<>>)) }
  \cup { Candidate(Present(parts)) : parts \in PartsLists }

\* result.response; received = FALSE before generateContent has resolved
Reply(candidates, promptFeedback) ==
  [received |-> TRUE, candidates |-> candidates,
   promptFeedback |-> promptFeedback]

ModelResponses ==
  { Reply(c, f) : c \in {Absent(<<>>), Present(<<>>)}, f \in PromptFeedbacks }
  \cup { Reply(Present(<<c>>), NoFeedback) : c \in FirstCandidates }
  \cup { Reply(Present(<<c, DecoyCandidate>>), NoFeedback) :
           c \in FirstCandidates }

\* what generateContent may reject with: a timeout or provider error (an
\* Error with its message), or a value that is no Error
ProviderErrors ==
  { Throw(Literal("Request timed out")),
    Throw(Literal("[GoogleGenerativeAI Error]: Error fetching")),
    ThrowNonError }

PromptText ==
  <<"m", "a", "k", "e", " ", "i", "t", " ", "b", "l", "u", "e">>

MimeTypes == {ImagePng, ImageWebp}

Payloads == {PngPayload, <<>>}

\* imageData: absent, empty, a data-URL, bare base64, or a prefix alone
ImageDatas ==
  { Undefined, Some(<<>>), Some(PngPayload), Some(DataImagePngPrefix) }
  \cup { Some(DataUrl(m, p)) : m \in MimeTypes, p \in Payloads }

Prompts == { Undefined, Some(<<>>), Some(PromptText) }

\* parses = FALSE: request.json() rejects
RequestBodies ==
  { [parses |-> TRUE, imageData |-> i, prompt |-> p] :
      i \in ImageDatas, p \in Prompts }
  \cup { [parses |-> FALSE, imageData |-> Undefined, prompt |-> Undefined] }

(***************************************************************************)
(* The state of one invocation of POST.                                    *)
(***************************************************************************)
VARIABLES
  pc,             \* where the handler stands
  body,           \* the parsed request body
  providerCalls,  \* the calls of model.generateContent made so far
  response,       \* result.response
  httpResponses   \* the responses returned to the caller

vars == <<pc, body, providerCalls, response, httpResponses>>

NoBody == [parses |-> FALSE, imageData |-> Undefined, prompt |-> Undefined]

NoResponse ==
  [received |-> FALSE, candidates |-> Absent(<<>>),
   promptFeedback |-> NoFeedback]

Init ==
  /\ pc = "start"
  /\ body = NoBody
  /\ providerCalls = <<>>
  /\ response = NoResponse
  /\ httpResponses = <<>>

\* const { imageData, prompt } = await request.json()
ReadBody ==
  /\ pc = "start"
  /\ \E b \in RequestBodies :
       /\ body' = b
       /\ IF b.parses
            THEN /\ pc' = "parsed"
                 /\ httpResponses' = httpResponses
            ELSE /\ pc' = "done"
                 /\ httpResponses' =
                      Append(httpResponses, Respond(Throw(BadBodyMessage)))
  /\ UNCHANGED <<providerCalls, response>>

\* the validation, and for a valid request the split, the prompt and the
\* call of model.generateContent, which the handler then awaits
ValidateAndCall ==
  /\ pc = "parsed"
  /\ IF ~Truthy(body.imageData) \/ ~Truthy(body.prompt)
       THEN /\ pc' = "done"
            /\ httpResponses' = Append(httpResponses, MissingParameterResponse)
            /\ providerCalls' = providerCalls
       ELSE /\ pc' = "awaiting"
            /\ providerCalls' =
                 Append(providerCalls,
                        ProviderCall(body.imageData.val, body.prompt.val))
            /\ httpResponses' = httpResponses
  /\ UNCHANGED <<body, response>>

\* generateContent resolves
ProviderReplies ==
  /\ pc = "awaiting"
  /\ \E r \in ModelResponses : response' = r
  /\ pc' = "replied"
  /\ UNCHANGED <<body, providerCalls, httpResponses>>

\* a variant that calls the provider again after a rejected call
ProviderFailsRetry ==
  /\ pc = "awaiting"
  /\ pc' = "parsed"
  /\ UNCHANGED <<body, providerCalls, response, httpResponses>>

\* generateContent rejects: the catch block answers
ProviderFails ==
  /\ pc = "awaiting"
  /\ \E e \in ProviderErrors :
       httpResponses' = Append(httpResponses, Respond(e))
  /\ pc' = "done"
  /\ UNCHANGED <<body, providerCalls, response>>

\* the rest of the try block and the catch block
Normalize ==
  /\ pc = "replied"
  /\ httpResponses' = Append(httpResponses, Respond(NormalizeResponse(response)))
  /\ pc' = "done"
  /\ UNCHANGED <<body, providerCalls, response>>

Next ==
  \/ ReadBody
  \/ ValidateAndCall
  \/ ProviderReplies
  \/ ProviderFails
  \/ Normalize

Spec == Init /\ [][Next]_vars

(***************************************************************************)
(* Vocabulary of the properties.                                           *)
(***************************************************************************)
\* a field of the body that is absent or holds the empty string
Lacks(field) == ~field.present \/ Len(field.val) = 0

\* the handler has answered the provider's reply
Answered == pc = "done" /\ response.received

\* the reply holds a first candidate with a non-empty parts list
HasParts ==
  /\ response.received
  /\ response.candidates.present
  /\ response.candidates.list # <<>>
  /\ response.candidates.list[1].hasContent
  /\ response.candidates.list[1].parts.present
  /\ response.candidates.list[1].parts.list # <<>>

FirstParts == response.candidates.list[1].parts.list

\* position i holds the first image part of the list
FirstImageAt(parts, i) ==
  /\ i \in 1..Len(parts)
  /\ parts[i].kind = "inlineData"
  /\ \A k \in 1..(i - 1) : parts[k].kind # "inlineData"

NoImagePart(parts) == \A k \in 1..Len(parts) : parts[k].kind # "inlineData"

\* position i holds the first text part of the list; as parts.find(part =>
\* part.text) takes it, a text part is a part whose text is not empty
FirstTextAt(parts, i) ==
  /\ i \in 1..Len(parts)
  /\ parts[i].kind = "text" /\ Len(parts[i].text) > 0
  /\ \A k \in 1..(i - 1) : ~(parts[k].kind = "text" /\ Len(parts[k].text) > 0)

\* every character of s is of the base64 alphabet
OnlyBase64(s) == \A k \in 1..Len(s) : s[k] \in Base64Alphabet

JpegDataUrlPrefix ==
  <<"d", "a", "t", "a", ":", "i", "m", "a", "g", "e", "/", "j", "p", "e", "g",
    ";", "b", "a", "s", "e", "6", "4", ",">>

\* the one response sent is an error response with these details
FailedWith(details) ==
  /\ Len(httpResponses) = 1
  /\ httpResponses[1].status = 500
  /\ ~httpResponses[1].success
  /\ httpResponses[1].editedImage = <<>>
  /\ httpResponses[1].details = details

\* the one response sent is a success with this image and this warning
SucceededWith(editedImage, message) ==
  /\ Len(httpResponses) = 1
  /\ httpResponses[1].status = 200
  /\ httpResponses[1].success
  /\ httpResponses[1].editedImage = editedImage
  /\ httpResponses[1].message = message
  /\ httpResponses[1].error = ""

(***************************************************************************)
(* C1.  A request whose JSON body lacks a non-empty imageData or a         *)
(* non-empty prompt is answered with HTTP 400 "Missing required            *)
(* parameters" and the provider is never called for it; the provider is    *)
(* called only for a body that passed the validation.                      *)
(***************************************************************************)
C1_MissingParameter ==
  /\ (body.parses /\ (Lacks(body.imageData) \/ Lacks(body.prompt)))
       => /\ providerCalls = <<>>
          /\ pc \in {"parsed", "done"}
          /\ pc = "done" =>
               /\ Len(httpResponses) = 1
               /\ httpResponses[1].status = 400
               /\ httpResponses[1].error = "Missing required parameters"
               /\ ~httpResponses[1].success
  /\ providerCalls # <<>>
       => body.parses /\ ~Lacks(body.imageData) /\ ~Lacks(body.prompt)

C1_Witness ==
  /\ pc = "done"
  /\ body.parses
  /\ ~Lacks(body.imageData)
  /\ body.prompt.present /\ body.prompt.val = <<>>
  /\ httpResponses = <<MissingParameterResponse>>

(***************************************************************************)
(* C2.  Precedence: when the first candidate's parts list holds an image   *)
(* part, wherever the text parts stand, the handler answers success with   *)
(* the data-URL of the first image part's MIME type and payload and no     *)
(* warning.                                                                *)
(***************************************************************************)
C2_ImagePrecedence ==
  (Answered /\ HasParts) =>
    \A i \in 1..Len(FirstParts) :
      FirstImageAt(FirstParts, i) =>
        SucceededWith(<<"d", "a", "t", "a", ":">> \o FirstParts[i].mimeType
                        \o <<";", "b", "a", "s", "e", "6", "4", ",">>
                        \o FirstParts[i].data,
                      "")

\* an extractable text part stands before the image part
C2_Witness ==
  /\ Answered /\ HasParts
  /\ Len(FirstParts) = 2
  /\ FirstParts[1].kind = "text"
  /\ OnlyBase64(FirstParts[1].text) /\ Len(FirstParts[1].text) > MinTextLen
  /\ FirstImageAt(FirstParts, 2)
  /\ httpResponses[1].success

(***************************************************************************)
(* C3.  A reply with no candidates (the list absent or empty) fails: with  *)
(* BlockedByProvider carrying the block reason when one is populated,      *)
(* with EmptyOutput otherwise; never a success.                            *)
(***************************************************************************)
C3_NoCandidates ==
  (Answered /\ (~response.candidates.present \/ Len(response.candidates.list) = 0))
    => IF response.promptFeedback.present
          /\ Len(response.promptFeedback.blockReason) > 0
         THEN FailedWith(
                [head |-> "Generation failed: Model output was blocked. Reason: ",
                 arg |-> response.promptFeedback.blockReason,
                 tail |-> ""])
         ELSE FailedWith(
                [head |-> "Generation failed: Model output was empty.",
                 arg |-> <<>>, tail |-> ""])

C3_Witness ==
  /\ Answered
  /\ response.candidates.present /\ response.candidates.list = <<>>
  /\ response.promptFeedback.blockReason = <<"S", "A", "F", "E", "T", "Y">>
  /\ httpResponses[1].details.arg = <<"S", "A", "F", "E", "T", "Y">>

(***************************************************************************)
(* C4.  With no image part, a first text part whose trimmed text is only   *)
(* base64 characters and longer than 100 characters is returned as         *)
(* "data:image/jpeg;base64," followed by the trimmed text, with the        *)
(* fallback warning.                                                       *)
(***************************************************************************)
C4_RawBase64Text ==
  (Answered /\ HasParts /\ NoImagePart(FirstParts)) =>
    \A i \in 1..Len(FirstParts) :
      (/\ FirstTextAt(FirstParts, i)
       /\ OnlyBase64(Trim(FirstParts[i].text))
       /\ Len(Trim(FirstParts[i].text)) > 100)
        => SucceededWith(JpegDataUrlPrefix \o Trim(FirstParts[i].text),
                         "Warning: Model returned image as text. Consider refining prompt.")

\* the text of 150 base64 characters, padded with white space
C4_Witness ==
  /\ Answered /\ HasParts /\ NoImagePart(FirstParts)
  /\ FirstTextAt(FirstParts, 1)
  /\ FirstParts[1].text # Trim(FirstParts[1].text)
  /\ OnlyBase64(Trim(FirstParts[1].text))
  /\ Len(Trim(FirstParts[1].text)) = 150
  /\ httpResponses[1].success

(***************************************************************************)
(* C5.  A text that holds, between any prose, a fenced json block with an  *)
(* object whose only recognised field (text, image, data or base64) is a   *)
(* base64 string longer than 100 characters: step (a) returns exactly that *)
(* field's value.  The texts are built here from their pieces, and the     *)
(* extraction has to find the value again.                                 *)
(***************************************************************************)
C5_Cases ==
  { [text |-> before \o Fenced(Object1(Member(field, Quoted(value)))) \o after,
     value |-> value] :
      before \in {<<>>, Intro}, after \in {<<>>, Outro},
      field \in {possibleFields[i] : i \in 1..Len(possibleFields)},
      value \in {Rep("C", 101), Rep("C", 150)} }
  \cup
  { [text |-> before \o Fenced(Object2(Member(FieldOther, Quoted(Prose)),
                                       Member(field, Quoted(value)))) \o after,
     value |-> value] :
      before \in {<<>>, Intro}, after \in {<<>>, Outro},
      field \in {possibleFields[i] : i \in 1..Len(possibleFields)},
      value \in {Rep("R", 101)} }

C5_FencedJsonField ==
  (Answered /\ HasParts /\ NoImagePart(FirstParts)) =>
    \A i \in 1..Len(FirstParts) : \A c \in C5_Cases :
      (FirstTextAt(FirstParts, i) /\ Trim(FirstParts[i].text) = c.text)
        => /\ ExtractFromJsonBlock(Trim(FirstParts[i].text))
                = [returns |-> TRUE,
                   value |-> [present |-> TRUE, val |-> c.value]]
           /\ SucceededWith(JpegDataUrlPrefix \o c.value,
                "Warning: Model returned image as text. Consider refining prompt.")

\* the block stands between an introduction and a closing remark
C5_Witness ==
  /\ Answered /\ HasParts /\ NoImagePart(FirstParts)
  /\ FirstTextAt(FirstParts, 1)
  /\ \E c \in C5_Cases :
       /\ Trim(FirstParts[1].text) = c.text
       /\ StartsWith(c.text, Intro)
       /\ Len(c.value) = 101
       /\ httpResponses[1].editedImage = JpegDataUrlPrefix \o c.value

(***************************************************************************)
(* C6.  With no image part, a first text part from which the extraction    *)
(* yields nothing (plain prose, for one) fails with TextInsteadOfImage,    *)
(* and the excerpt is the first 100 characters of the trimmed text, or     *)
(* all of it when it is shorter.                                           *)
(***************************************************************************)
\* prose: words separated by blanks, no fence, no data-URL
PlainProse(s) ==
  /\ \E k \in 1..Len(s) : s[k] = " "
  /\ \A k \in 1..Len(s) : s[k] # Backquote
  /\ ~StartsWith(s, DataImagePrefix)

FirstHundred(s) == SubSeq(s, 1, IF Len(s) <= 100 THEN Len(s) ELSE 100)

C6_TextInsteadOfImage ==
  (Answered /\ HasParts /\ NoImagePart(FirstParts)) =>
    \A i \in 1..Len(FirstParts) :
      (/\ FirstTextAt(FirstParts, i)
       /\ \/ ~extractBase64FromText(Trim(FirstParts[i].text)).present
          \/ PlainProse(Trim(FirstParts[i].text)))
        => FailedWith([head |-> "Model generated text instead of image: \"",
                       arg |-> FirstHundred(Trim(FirstParts[i].text)),
                       tail |-> "...\". Please adjust the prompt."])

\* prose of more than 100 characters, cut to its first 100
C6_Witness ==
  /\ Answered /\ HasParts /\ NoImagePart(FirstParts)
  /\ FirstTextAt(FirstParts, 1)
  /\ PlainProse(FirstParts[1].text)
  /\ Len(FirstParts[1].text) > 100
  /\ Len(httpResponses[1].details.arg) = 100
  /\ httpResponses[1].status = 500

(***************************************************************************)
(* C7.  The split of imageData: a data-URL data:<mime>;base64,<payload>    *)
(* sends exactly <payload>, a string without a comma is sent whole, and    *)
(* the MIME type sent is image/png exactly when the input starts with      *)
(* data:image/png, image/jpeg otherwise.                                   *)
(***************************************************************************)
C7_SplitRoundTrip ==
  providerCalls # <<>> =>
    LET sent == providerCalls[1]
        input == body.imageData.val
    IN /\ \A m \in MimeTypes : \A p \in Payloads :
            input = <<"d", "a", "t", "a", ":">> \o m
                      \o <<";", "b", "a", "s", "e", "6", "4", ",">> \o p
              => sent.data = p
       /\ (\A k \in 1..Len(input) : input[k] # ",") => sent.data = input
       /\ sent.mimeType = ImagePng <=> StartsWith(input, DataImagePngPrefix)
       /\ sent.mimeType # ImagePng => sent.mimeType = ImageJpeg

\* a WebP data-URL: its payload is recovered and it is declared as JPEG
C7_Witness ==
  /\ providerCalls # <<>>
  /\ body.imageData.val = DataUrl(ImageWebp, PngPayload)
  /\ providerCalls[1].data = PngPayload
  /\ providerCalls[1].mimeType = ImageJpeg

(***************************************************************************)
(* C8.  The gates of the fallback path.                                    *)
(***************************************************************************)
\* the handler answered success with the fallback warning
FallbackSuccess ==
  /\ Answered
  /\ Len(httpResponses) = 1
  /\ httpResponses[1].success
  /\ httpResponses[1].message
       = "Warning: Model returned image as text. Consider refining prompt."

\* what the JPEG data-URL of the response wraps
WrappedPayload ==
  SubSeq(httpResponses[1].editedImage, Len(JpegDataUrlPrefix) + 1,
         Len(httpResponses[1].editedImage))

\* the text part the fallback read, trimmed
FallbackText ==
  Trim(FirstParts[CHOOSE i \in 1..Len(FirstParts) :
                    FirstTextAt(FirstParts, i)].text)

\* the strings a payload may have been cut out of: the trimmed text and
\* the string members of its fenced json object
PayloadSources(text) ==
  LET m == jsonMatch(text)
      json == IF m.present THEN JsonParse(m.val) ELSE ParseError
  IN {text} \cup { json.members[k].str : k \in 1..Len(json.members) }

\* payload is what lies between the first and the second comma of a
\* data-URL among the sources
CutFromDataUrl(payload, text) ==
  \E src \in PayloadSources(text) :
    /\ StartsWith(src, DataImagePrefix)
    /\ \E c1 \in 1..Len(src) :
         /\ src[c1] = ","
         /\ \A k \in 1..(c1 - 1) : src[k] # ","
         /\ Len(src) >= c1 + Len(payload)
         /\ SubSeq(src, c1 + 1, c1 + Len(payload)) = payload
         /\ \A k \in 1..Len(payload) : payload[k] # ","
         /\ Len(src) > c1 + Len(payload) => src[c1 + Len(payload) + 1] = ","

(* C8 as claimed: every success of the fallback path wraps a payload that  *)
(* is longer than 100 characters and consists only of base64 characters.   *)
C8_AsClaimed ==
  FallbackSuccess =>
    /\ Len(WrappedPayload) > 100
    /\ OnlyBase64(WrappedPayload)

(* C8 as amended: every success of the fallback path wraps a payload that  *)
(* is longer than 100 characters; the payload consists only of base64      *)
(* characters unless it was cut out of a data-URL (the whole text, or a    *)
(* field of the fenced json object), whose payload has no format gate.     *)
C8_FallbackGates ==
  FallbackSuccess =>
    /\ Len(WrappedPayload) > 100
    /\ OnlyBase64(WrappedPayload)
         \/ CutFromDataUrl(WrappedPayload, FallbackText)

\* a data-URL text whose payload is no base64 is returned as an image
C8_Witness ==
  /\ FallbackSuccess
  /\ StartsWith(FallbackText, DataImagePrefix)
  /\ ~OnlyBase64(WrappedPayload)
  /\ Len(WrappedPayload) = 101

(***************************************************************************)
(* C9.  The order of the fields in step (a).                               *)
(***************************************************************************)
\* the members of the fenced json object of text, when it parses
ParsedBlock(text) ==
  LET m == jsonMatch(text)
  IN IF m.present THEN JsonParse(m.val) ELSE ParseError

\* the value of the field is a (non-empty) string
IsStringField(members, i) == StringField(members, possibleFields[i]).present

FieldValue(members, i) == StringField(members, possibleFields[i]).val

\* the value is a data-URL, or base64 of more than 100 characters
Qualifies(v) ==
  \/ StartsWith(v, DataImagePrefix)
  \/ Len(v) > 0 /\ OnlyBase64(v) /\ Len(v) > 100

\* what one field decides by itself
DecidedBy(v) ==
  IF StartsWith(v, DataImagePrefix)
    THEN [returns |-> TRUE, value |-> SplitSecondOrNull(v)]
  ELSE IF Len(v) > 0 /\ OnlyBase64(v) /\ Len(v) > 100
    THEN [returns |-> TRUE, value |-> [present |-> TRUE, val |-> v]]
  ELSE [returns |-> FALSE, value |-> [present |-> FALSE, val |-> <<>>]]

\* the least member of a non-empty set of positions
Least(S) == CHOOSE i \in S : \A k \in S : i <= k

\* the trimmed texts of the text parts of the reply the handler answered
ReplyTexts ==
  IF Answered /\ HasParts
    THEN { Trim(FirstParts[i].text) :
             i \in {k \in 1..Len(FirstParts) : FirstParts[k].kind = "text"} }
    ELSE {}

(* C9 as claimed: when the block parses, step (a) is decided by the first  *)
(* of text, image, data, base64 whose value is a string, and no later      *)
(* field replaces it.                                                      *)
C9_AsClaimed ==
  \A t \in ReplyTexts :
    LET json == ParsedBlock(t)
        strings == {i \in 1..Len(possibleFields) : IsStringField(json.members, i)}
    IN json.ok =>
         ExtractFromJsonBlock(t) =
           IF strings = {}
             THEN [returns |-> FALSE, value |-> [present |-> FALSE, val |-> <<>>]]
             ELSE DecidedBy(FieldValue(json.members, Least(strings)))

(* C9 as amended: when the block parses, the fields are inspected in the   *)
(* order text, image, data, base64, and step (a) is decided by the first   *)
(* of them whose value is a string that is a data-URL or base64 of more    *)
(* than 100 characters; a string field that is neither is passed over and  *)
(* the next field is inspected.                                            *)
C9_FieldOrder ==
  \A t \in ReplyTexts :
    LET json == ParsedBlock(t)
        usable == {i \in 1..Len(possibleFields) :
                     /\ IsStringField(json.members, i)
                     /\ Qualifies(FieldValue(json.members, i))}
    IN json.ok =>
         ExtractFromJsonBlock(t) =
           IF usable = {}
             THEN [returns |-> FALSE, value |-> [present |-> FALSE, val |-> <<>>]]
             ELSE DecidedBy(FieldValue(json.members, Least(usable)))

\* text holds prose, image holds the payload, and the payload is returned
C9_Witness ==
  /\ Answered /\ HasParts /\ NoImagePart(FirstParts)
  /\ FirstTextAt(FirstParts, 1)
  /\ LET json == ParsedBlock(Trim(FirstParts[1].text))
     IN /\ json.ok
        /\ IsStringField(json.members, 1)
        /\ ~Qualifies(FieldValue(json.members, 1))
        /\ IsStringField(json.members, 2)
        /\ Qualifies(FieldValue(json.members, 2))
        /\ SucceededWith(JpegDataUrlPrefix \o FieldValue(json.members, 2),
             "Warning: Model returned image as text. Consider refining prompt.")

(***************************************************************************)
(* C10.  In one invocation the provider is called at most once, with a     *)
(* timeout of 60 seconds, and at most one response is sent; once a         *)
(* response is sent nothing follows it; a rejected call (a timeout or a    *)
(* provider error) and every failure of the normalisation end the          *)
(* invocation in the same step with one 500 response that carries the      *)
(* failure's message.                                                      *)
(***************************************************************************)
C10_SingleCallNoRetry ==
  [][ /\ Len(providerCalls') <= 1
      /\ \A k \in 1..Len(providerCalls') : providerCalls'[k].timeout = 60000
      /\ Len(httpResponses') <= 1
      /\ httpResponses # <<>> => UNCHANGED vars
      /\ (pc = "awaiting" /\ ~response'.received) =>
           /\ pc' = "done"
           /\ providerCalls' = providerCalls
           /\ Len(httpResponses') = 1
           /\ httpResponses'[1].status = 500
           /\ ~httpResponses'[1].success
           /\ httpResponses'[1].details.head
                \in {e.message.head : e \in {x \in ProviderErrors : x.isError}}
                    \cup {"Failed to process image"}
      /\ (pc = "replied" /\ NormalizeResponse(response).threw) =>
           /\ pc' = "done"
           /\ providerCalls' = providerCalls
           /\ Len(httpResponses') = 1
           /\ httpResponses'[1].status = 500
           /\ ~httpResponses'[1].success
           /\ httpResponses'[1].details = NormalizeResponse(response).message
    ]_vars

\* the call was rejected: one call made, one error response, no reply read
C10_Witness ==
  /\ pc = "done"
  /\ Len(providerCalls) = 1
  /\ ~response.received
  /\ Len(httpResponses) = 1
  /\ httpResponses[1].status = 500
  /\ httpResponses[1].details.head = "Request timed out"

====
